---------------------------- MODULE Spec2Model ----------------------------
(***************************************************************************)
(* Model of the HD44780 character-LCD driver of src/lcd.c (4-bit bus over  *)
(* GPIO lines, timing from a hardware counter).                            *)
(*                                                                         *)
(* The driver is a sequential program.  Its state is the call stack (one   *)
(* frame per active function, the frame's pc being the source line about   *)
(* to execute), the six GPIO lines, and the hardware counter.  The main    *)
(* program is a script of calls (todo) made one after the other.  A probe  *)
(* on the bus records every GPIO write and every delay request (trace),    *)
(* every byte handed to LCD_Command / LCD_Data (sends) and every nibble    *)
(* latched by a falling strobe edge (pulses).  The display controller on   *)
(* the other end of the bus is the variable lcd.                           *)
(***************************************************************************)
EXTENDS Integers, Sequences, FiniteSets, TLC

VARIABLES
    pins,       \* level of each GPIO output line
    stack,      \* call stack, innermost frame last
    todo,       \* calls main() has still to make
    calls,      \* calls made so far, each with the probe offsets at its entry
    cnt,        \* hardware counter (TIMx->CNT)
    ticked,     \* a counter tick happened since the last CPU step
    edgeAge,    \* ticks since the strobe last changed level (capped)
    pulseWidth, \* ticks the strobe was high in its last completed pulse (capped)
    sinceRise,  \* ticks since the last rising strobe edge (capped)
    riseGap,    \* sinceRise as it was at the last rising strobe edge
    lastDelay,  \* argument and measured ticks of the last Delay() that returned
    trace,      \* probe: GPIO writes and delay requests, in order
    sends,      \* probe: bytes received by LCD_Command / LCD_Data
    pulses,     \* probe: (RS, nibble) on the bus at each falling strobe edge
    lcd         \* display controller state

vars == <<pins, stack, todo, calls, cnt, ticked, edgeAge, pulseWidth, sinceRise,
          riseGap,
          lastDelay, trace, sends, pulses, lcd>>

-----------------------------------------------------------------------------
(* Bounds of the model *)

\* Period of the hardware counter: it counts 0 .. CounterPeriod-1 and wraps.
CounterPeriod == 24
\* Longest string LCD_String is called with.
MaxStrLen == 2
\* Largest column LCD_Put_Cursor is called with (besides a few named ones).
MaxCol == 80
\* Largest argument of a direct Delay() call.
MaxDelayUs == 26
\* Number of calls in a script of the general specification.
MaxCalls == 2
\* Number of times an interrupt handler preempts a Delay call.
MaxPreempt == 2
\* Where the timers that measure the strobe stop counting: the width of a
\* level, and the distance of two rising edges.
PulseCap == 20
GapCap == 40

(* Program constants *)

\* Delay(20) after raising the strobe, and after lowering it.
EN_PULSE_US == 20
EN_SETTLE_US == 20
\* HAL_Delay(2) of LCD_Clear.
CLEAR_DELAY_MS == 2

-----------------------------------------------------------------------------
(* Arithmetic helpers *)

Min(a, b) == IF a < b THEN a ELSE b

Pow2(k) == 2 ^ k

\* Bit k of the two's complement representation of the integer n.
Bit(n, k) == (n \div Pow2(k)) % 2

\* Conversion of an int to (8-bit) char: the low 8 bits.
ToChar(n) == n % 256

\* Conversion to uint16_t (the parameter of Delay).
ToU16(n) == n % 65536

\* a | b on ints (two's complement): bit by bit from the low end, until only
\* the sign extensions of a and b are left.
RECURSIVE BitOr(_, _)
BitOr(a, b) ==
    IF a \in {0, -1} /\ b \in {0, -1}
    THEN (IF a = -1 \/ b = -1 THEN -1 ELSE 0)
    ELSE 2 * BitOr(a \div 2, b \div 2)
         + (IF a % 2 = 1 \/ b % 2 = 1 THEN 1 ELSE 0)

-----------------------------------------------------------------------------
(* Call stack *)

Frame(fn, pc, a, b) == [fn |-> fn, pc |-> pc, a |-> a, b |-> b]

Depth == Len(stack)
Top == stack[Depth]
Running(fn, pc) == Depth > 0 /\ Top.fn = fn /\ Top.pc = pc

\* The stack after the top frame moves to line pc.
Goto(pc) == [stack EXCEPT ![Depth].pc = pc]
\* The stack after the top frame moves to line pc and calls f.
CallFrom(pc, f) == Append(Goto(pc), f)
\* The stack after the top frame returns.
Return == SubSeq(stack, 1, Depth - 1)

Idle == stack = <<>>
Finished == Idle /\ todo = <<>>

-----------------------------------------------------------------------------
(* The display controller: an HD44780 on the other end of the bus.  It     *)
(* latches RS and DB7..DB4 on each falling strobe edge.  In 8-bit mode one *)
(* latch is one instruction whose low four bits are the unconnected lines  *)
(* DB3..DB0, which the controller's internal pull-ups hold high; in 4-bit  *)
(* mode two latches make one byte, high nibble first.                      *)

LcdState(dl, phase, hi, n, d, id, s, clr) ==
    [dl |-> dl, phase |-> phase, hi |-> hi, n |-> n, d |-> d, id |-> id,
     s |-> s, clr |-> clr]

\* Instruction decode (datasheet instruction table).
LcdExecute(l, rs, byte) ==
    IF rs = 1 THEN [l EXCEPT !.clr = FALSE]                 \* write data to RAM
    ELSE IF byte >= 128 THEN l                              \* set DDRAM address
    ELSE IF byte >= 64 THEN l                               \* set CGRAM address
    ELSE IF byte >= 32 THEN                                 \* function set
        [l EXCEPT !.dl = IF Bit(byte, 4) = 1 THEN 8 ELSE 4,
                  !.n = Bit(byte, 3), !.phase = "hi", !.hi = 0]
    ELSE IF byte >= 16 THEN l                               \* cursor/display shift
    ELSE IF byte >= 8 THEN [l EXCEPT !.d = Bit(byte, 2)]    \* display on/off
    ELSE IF byte >= 4 THEN                                  \* entry mode set
        [l EXCEPT !.id = Bit(byte, 1), !.s = Bit(byte, 0)]
    ELSE IF byte >= 2 THEN l                                \* return home
    ELSE IF byte = 1 THEN [l EXCEPT !.clr = TRUE, !.id = 1] \* clear display
    ELSE l

\* What the controller reads on the unconnected DB3..DB0 in 8-bit mode.
LcdOpenLines == 15

\* A falling strobe edge with rs and nibble on the bus.
LcdLatch(l, rs, nibble) ==
    IF l.dl = 8 THEN LcdExecute(l, rs, nibble * 16 + LcdOpenLines)
    ELSE IF l.phase = "hi" THEN [l EXCEPT !.phase = "lo", !.hi = nibble]
    ELSE LcdExecute([l EXCEPT !.phase = "hi", !.hi = 0], rs, l.hi * 16 + nibble)

\* The controller as it is after its internal power-on reset.
LcdPowerOn == LcdState(8, "hi", 0, 0, 0, 1, 0, FALSE)

\* The controller as a completed initialisation is meant to leave it: 4-bit
\* interface waiting for a high nibble, 2 lines, display on and clear,
\* increment without shift.
LcdReady == LcdState(4, "hi", 0, 1, 1, 1, 0, TRUE)

-----------------------------------------------------------------------------
(* GPIO lines *)

\* The nibble on DB7..DB4.
BusNibble(p) == 8 * p.DB7 + 4 * p.DB6 + 2 * p.DB5 + p.DB4

\* HAL_GPIO_WritePin(line, state): any non-zero state sets the line.
PinLevel(state) == IF state # 0 THEN 1 ELSE 0

\* One HAL_GPIO_WritePin call of the top frame, which then moves to line next.
\* The timers and the controller follow the strobe's edges.
WritePin(line, state, next) ==
    LET lv == PinLevel(state)
        rising == line = "EN" /\ pins.EN = 0 /\ lv = 1
        falling == line = "EN" /\ pins.EN = 1 /\ lv = 0
    IN  /\ pins' = [pins EXCEPT ![line] = lv]
        /\ trace' = Append(trace, <<line, lv>>)
        /\ stack' = Goto(next)
        /\ ticked' = FALSE
        /\ riseGap' = IF rising THEN sinceRise ELSE riseGap
        /\ sinceRise' = IF rising THEN 0 ELSE sinceRise
        /\ edgeAge' = IF rising \/ falling THEN 0 ELSE edgeAge
        /\ pulseWidth' = IF falling THEN edgeAge ELSE pulseWidth
        /\ pulses' = IF falling
                     THEN Append(pulses, [rs |-> pins.RS, nib |-> BusNibble(pins)])
                     ELSE pulses
        /\ lcd' = IF falling THEN LcdLatch(lcd, pins.RS, BusNibble(pins)) ELSE lcd
        /\ UNCHANGED <<todo, calls, cnt, lastDelay, sends>>

-----------------------------------------------------------------------------
(* Hardware counter *)

\* The measuring timers stop counting at PulseCap (edgeAge, pulseWidth) and
\* GapCap (sinceRise, riseGap).

\* One tick of the counter.  Statements are taken to execute in no time (the
\* fastest CPU, the worst case for every minimum width): the counter advances
\* while the CPU waits in the polling loop of Delay, whose iteration takes
\* less than a tick, so there is a read of the counter between two ticks.
Tick ==
    /\ Running("Delay", 27)
    /\ ~ticked
    /\ cnt' = (cnt + 1) % CounterPeriod
    /\ ticked' = TRUE
    /\ edgeAge' = Min(edgeAge + 1, PulseCap)
    /\ sinceRise' = Min(sinceRise + 1, GapCap)
    /\ stack' = [i \in DOMAIN stack |->
                    IF stack[i].fn = "Delay"
                    THEN [stack[i] EXCEPT !.b = Min(@ + 1, stack[i].a)]
                    ELSE stack[i]]
    /\ UNCHANGED <<pins, todo, calls, pulseWidth, riseGap, lastDelay, trace, sends,
                   pulses, lcd>>

-----------------------------------------------------------------------------
(* void Delay(uint16_t microseconds): frame a = microseconds, b = ticks    *)
(* elapsed since entry (measured, capped at a).                            *)

DelayFrame(us) == Frame("Delay", 26, ToU16(us), 0)

\* Mutant: the loop leaves one tick short of the target.
DelayWaiting_OneShort(counter, microseconds) == counter + 1 < microseconds

\* The loop condition of line 27.
DelayWaiting(counter, microseconds) == counter < microseconds

\* Mutant: the counter is not reset at entry.
Delay_SetCounter_NoReset ==
    /\ Running("Delay", 26)
    /\ stack' = Goto(27)
    /\ ticked' = FALSE
    /\ UNCHANGED <<pins, todo, calls, cnt, edgeAge, pulseWidth, sinceRise, riseGap,
                   lastDelay, trace, sends, pulses, lcd>>

\* __HAL_TIM_SET_COUNTER(&timer, 0)
Delay_SetCounter ==
    /\ Running("Delay", 26)
    /\ cnt' = 0
    /\ stack' = Goto(27)
    /\ ticked' = FALSE
    /\ UNCHANGED <<pins, todo, calls, edgeAge, pulseWidth, sinceRise, riseGap, lastDelay,
                   trace, sends, pulses, lcd>>

\* while(__HAL_TIM_GET_COUNTER(&timer) < microseconds);  one read of the counter
Delay_Poll ==
    /\ Running("Delay", 27)
    /\ ticked' = FALSE
    /\ IF DelayWaiting(cnt, Top.a)
       THEN UNCHANGED <<stack, lastDelay>>
       ELSE /\ stack' = Return
            /\ lastDelay' = [us |-> Top.a, ticks |-> Top.b]
    /\ UNCHANGED <<pins, todo, calls, cnt, edgeAge, pulseWidth, sinceRise, riseGap,
                   trace, sends, pulses, lcd>>

\* A function requests Delay(us) and moves to line next.
CallDelay(us, next) ==
    /\ stack' = CallFrom(next, DelayFrame(us))
    /\ trace' = Append(trace, <<"Delay", ToU16(us)>>)
    /\ ticked' = FALSE
    /\ UNCHANGED <<pins, todo, calls, cnt, edgeAge, pulseWidth, sinceRise, riseGap, lastDelay,
                   sends, pulses, lcd>>

\* HAL_Delay(ms) of the vendor library, an opaque primitive: it returns after
\* at least ms milliseconds, with the free-running counter anywhere.
HalDelay(ms, next) ==
    /\ stack' = Goto(next)
    /\ trace' = Append(trace, <<"HAL_Delay", ms>>)
    /\ cnt' \in 0 .. CounterPeriod - 1
    /\ ticked' = FALSE
    /\ sinceRise' = GapCap
    /\ edgeAge' = PulseCap
    /\ UNCHANGED <<pins, todo, calls, pulseWidth, riseGap, lastDelay, sends, pulses, lcd>>

-----------------------------------------------------------------------------
(* void LCD_Transmit(char data, int rs): frame a = data, b = rs            *)

TransmitFrame(data, rs) == Frame("LCD_Transmit", 46, ToChar(data), rs)

\* The data line written at each of lines 48..51 and the bit it gets.
TransmitLine(pc) ==
    CASE pc = 48 -> "DB7" [] pc = 49 -> "DB6" [] pc = 50 -> "DB5" [] pc = 51 -> "DB4"
\* Mutant: the nibble is put on the data lines least significant bit first.
TransmitBit_LsbFirst(data, pc) ==
    CASE pc = 48 -> Bit(data, 0) [] pc = 49 -> Bit(data, 1)
      [] pc = 50 -> Bit(data, 2) [] pc = 51 -> Bit(data, 3)
TransmitBit(data, pc) ==
    CASE pc = 48 -> Bit(data, 3) [] pc = 49 -> Bit(data, 2)
      [] pc = 50 -> Bit(data, 1) [] pc = 51 -> Bit(data, 0)
TransmitNext(pc) == IF pc = 51 THEN 53 ELSE pc + 1

LCD_Transmit_RS ==
    /\ Running("LCD_Transmit", 46)
    /\ WritePin("RS", Top.b, 48)

LCD_Transmit_DB ==
    /\ Depth > 0 /\ Top.fn = "LCD_Transmit" /\ Top.pc \in 48 .. 51
    /\ WritePin(TransmitLine(Top.pc), TransmitBit(Top.a, Top.pc), TransmitNext(Top.pc))

LCD_Transmit_EN_High ==
    /\ Running("LCD_Transmit", 53)
    /\ WritePin("EN", 1, 54)

LCD_Transmit_Pulse ==
    /\ Running("LCD_Transmit", 54)
    /\ CallDelay(EN_PULSE_US, 55)

\* Mutant: the strobe is written high again instead of low.
LCD_Transmit_EN_Low_StaysHigh ==
    /\ Running("LCD_Transmit", 55)
    /\ WritePin("EN", 1, 56)

LCD_Transmit_EN_Low ==
    /\ Running("LCD_Transmit", 55)
    /\ WritePin("EN", 0, 56)

\* Mutant: the settling delay is half the pulse width.
LCD_Transmit_Settle_Short ==
    /\ Running("LCD_Transmit", 56)
    /\ CallDelay(EN_SETTLE_US \div 2, 57)

LCD_Transmit_Settle ==
    /\ Running("LCD_Transmit", 56)
    /\ CallDelay(EN_SETTLE_US, 57)

\* A function returns to its caller without any other effect.
PlainReturn ==
    /\ stack' = Return
    /\ ticked' = FALSE
    /\ UNCHANGED <<pins, todo, calls, cnt, edgeAge, pulseWidth, sinceRise, riseGap, lastDelay,
                   trace, sends, pulses, lcd>>

LCD_Transmit_Return ==
    /\ Running("LCD_Transmit", 57)
    /\ PlainReturn

-----------------------------------------------------------------------------
(* void LCD_Command(char cmd) and void LCD_Data(char data): frame a = the  *)
(* byte                                                                    *)

CommandRS == 0
DataRS == 1

\* Mutant: the shift of the high nibble is forgotten.
HighNibble_NoShift(byte) == byte % 16
\* Mutant: the low nibble is masked with 0x07.
LowNibble_Mask7(byte) == byte % 8

HighNibble(byte) == (byte \div 16) % 16     \* ((cmd>>4)&0x0F)
LowNibble(byte) == byte % 16                \* ((cmd)&0x0F)

CommandFrame(cmd) == Frame("LCD_Command", 72, ToChar(cmd), 0)
DataFrame(data) == Frame("LCD_Data", 93, ToChar(data), 0)

\* A function calls LCD_Transmit(datasend, rs) and moves to line next; at the
\* function's entry the probe notes the byte the function received.
CallTransmit(datasend, rs, next, entry) ==
    /\ stack' = CallFrom(next, TransmitFrame(datasend, rs))
    /\ sends' = IF entry
                THEN Append(sends, [rs |-> IF Top.fn = "LCD_Data" THEN 1 ELSE 0,
                                    byte |-> Top.a])
                ELSE sends
    /\ ticked' = FALSE
    /\ UNCHANGED <<pins, todo, calls, cnt, edgeAge, pulseWidth, sinceRise, riseGap, lastDelay,
                   trace, pulses, lcd>>

LCD_Command_High ==
    /\ Running("LCD_Command", 72)
    /\ CallTransmit(HighNibble(Top.a), CommandRS, 75, TRUE)

\* Mutant: the second transfer of a command is tagged as data.
LCD_Command_Low_AsData ==
    /\ Running("LCD_Command", 75)
    /\ CallTransmit(LowNibble(Top.a), DataRS, 77, FALSE)

LCD_Command_Low ==
    /\ Running("LCD_Command", 75)
    /\ CallTransmit(LowNibble(Top.a), CommandRS, 77, FALSE)

LCD_Command_Return ==
    /\ Running("LCD_Command", 77)
    /\ PlainReturn

LCD_Data_High ==
    /\ Running("LCD_Data", 93)
    /\ CallTransmit(HighNibble(Top.a), DataRS, 96, TRUE)

\* Mutant: datasend is not reassigned, the high nibble is transmitted twice.
LCD_Data_Low_HighAgain ==
    /\ Running("LCD_Data", 96)
    /\ CallTransmit(HighNibble(Top.a), DataRS, 98, FALSE)

LCD_Data_Low ==
    /\ Running("LCD_Data", 96)
    /\ CallTransmit(LowNibble(Top.a), DataRS, 98, FALSE)

LCD_Data_Return ==
    /\ Running("LCD_Data", 98)
    /\ PlainReturn

-----------------------------------------------------------------------------
(* A call of LCD_Command from a higher-level operation                     *)

CallCommand(cmd, next) ==
    /\ stack' = CallFrom(next, CommandFrame(cmd))
    /\ ticked' = FALSE
    /\ UNCHANGED <<pins, todo, calls, cnt, edgeAge, pulseWidth, sinceRise, riseGap, lastDelay,
                   trace, sends, pulses, lcd>>

-----------------------------------------------------------------------------
(* void LCD_Clear(void)                                                    *)

CLEAR_DISPLAY == 1      \* LCD_Command(0x01)

ClearFrame == Frame("LCD_Clear", 108, 0, 0)

LCD_Clear_Command ==
    /\ Running("LCD_Clear", 108)
    /\ CallCommand(CLEAR_DISPLAY, 109)

\* Mutant: the wait after the clear instruction is 1 ms.
LCD_Clear_Wait_Short ==
    /\ Running("LCD_Clear", 109)
    /\ HalDelay(CLEAR_DELAY_MS - 1, 110)

LCD_Clear_Wait ==
    /\ Running("LCD_Clear", 109)
    /\ HalDelay(CLEAR_DELAY_MS, 110)

LCD_Clear_Return ==
    /\ Running("LCD_Clear", 110)
    /\ PlainReturn

-----------------------------------------------------------------------------
(* void LCD_Put_Cursor(int row, int col): frame a = row, b = col           *)

PutCursorFrame(row, col) == Frame("LCD_Put_Cursor", 126, row, col)

\* Mutant: the column is added to the base instead of or-ed into it.
CursorAddress_Add(row, col) ==
    CASE row = 0 -> ToChar(col) + 128
      [] row = 1 -> ToChar(col) + 192
      [] OTHER -> col

\* Mutant: a default label makes every other row address the first line.
CursorAddress_DefaultFirstLine(row, col) ==
    CASE row = 1 -> BitOr(col, 192)
      [] OTHER -> BitOr(col, 128)

\* col after the switch of lines 126..134.
CursorAddress(row, col) ==
    CASE row = 0 -> BitOr(col, 128)       \* col |= 0x80
      [] row = 1 -> BitOr(col, 192)       \* col |= 0xC0
      [] OTHER -> col

LCD_Put_Cursor_Switch ==
    /\ Running("LCD_Put_Cursor", 126)
    /\ stack' = [stack EXCEPT ![Depth].pc = 135,
                               ![Depth].b = CursorAddress(Top.a, Top.b)]
    /\ ticked' = FALSE
    /\ UNCHANGED <<pins, todo, calls, cnt, edgeAge, pulseWidth, sinceRise, riseGap, lastDelay,
                   trace, sends, pulses, lcd>>

LCD_Put_Cursor_Command ==
    /\ Running("LCD_Put_Cursor", 135)
    /\ CallCommand(Top.b, 136)

LCD_Put_Cursor_Return ==
    /\ Running("LCD_Put_Cursor", 136)
    /\ PlainReturn

-----------------------------------------------------------------------------
(* void LCD_Init(void)                                                     *)

\* Mutant: LCD_Init starts at its first command, without the power-on wait.
InitFrame_NoPowerOnWait == Frame("LCD_Init", 151, 0, 0)

InitFrame == Frame("LCD_Init", 150, 0, 0)

Wait(ms) == <<"HAL_Delay", ms>>
Cmd(byte) == <<"LCD_Command", byte>>

\* The statement at each line of the body.
LCD_Init_Stmt(pc) ==
    CASE pc = 150 -> Wait(50)
      [] pc = 151 -> Cmd(48)        \* 0x30
      [] pc = 152 -> Wait(5)
      [] pc = 153 -> Cmd(48)        \* 0x30
      [] pc = 154 -> Wait(1)
      [] pc = 155 -> Cmd(48)        \* 0x30
      [] pc = 156 -> Wait(10)
      [] pc = 157 -> Cmd(32)        \* 0x20
      [] pc = 158 -> Wait(10)
      [] pc = 160 -> Cmd(40)        \* 0x28
      [] pc = 161 -> Wait(1)
      [] pc = 162 -> Cmd(8)         \* 0x08
      [] pc = 163 -> Wait(1)
      [] pc = 164 -> Cmd(1)         \* 0x01
      [] pc = 165 -> Wait(1)
      [] pc = 166 -> Cmd(6)         \* 0x06
      [] pc = 167 -> Wait(1)
      [] pc = 168 -> Cmd(12)        \* 0x0C
      [] pc = 169 -> <<"return", 0>>

\* Mutant: the function-set 0x28 of line 160 is jumped over.
LCD_Init_NextLine_Skip(pc) == IF pc = 158 THEN 161 ELSE pc + 1

LCD_Init_NextLine(pc) == IF pc = 158 THEN 160 ELSE pc + 1

\* Mutant: a second initialisation skips the power-on wait.
LCD_Init_Wait_WarmStart ==
    /\ Depth > 0 /\ Top.fn = "LCD_Init"
    /\ LCD_Init_Stmt(Top.pc)[1] = "HAL_Delay"
    /\ HalDelay(IF Top.pc = 150 /\ Len(calls) > 1 THEN 0 ELSE LCD_Init_Stmt(Top.pc)[2],
                LCD_Init_NextLine(Top.pc))

\* Mutant: the wait after the third 0x30 (line 156) is the 1 ms of line 154.
LCD_Init_Wait_ThirdShort ==
    /\ Depth > 0 /\ Top.fn = "LCD_Init"
    /\ LCD_Init_Stmt(Top.pc)[1] = "HAL_Delay"
    /\ HalDelay(LCD_Init_Stmt(IF Top.pc = 156 THEN 154 ELSE Top.pc)[2],
                LCD_Init_NextLine(Top.pc))

LCD_Init_Wait ==
    /\ Depth > 0 /\ Top.fn = "LCD_Init"
    /\ LCD_Init_Stmt(Top.pc)[1] = "HAL_Delay"
    /\ HalDelay(LCD_Init_Stmt(Top.pc)[2], LCD_Init_NextLine(Top.pc))

LCD_Init_Command ==
    /\ Depth > 0 /\ Top.fn = "LCD_Init"
    /\ LCD_Init_Stmt(Top.pc)[1] = "LCD_Command"
    /\ CallCommand(LCD_Init_Stmt(Top.pc)[2], LCD_Init_NextLine(Top.pc))

LCD_Init_Return ==
    /\ Depth > 0 /\ Top.fn = "LCD_Init"
    /\ LCD_Init_Stmt(Top.pc)[1] = "return"
    /\ PlainReturn

-----------------------------------------------------------------------------
(* void LCD_String(char *str): frame a = the memory str points into (the   *)
(* characters and their terminating 0), b = the position of str in it      *)

StringFrame(mem) == Frame("LCD_String", 178, mem, 1)

\* while(*str) LCD_Data(*str++);
LCD_String_Data ==
    /\ Running("LCD_String", 178)
    /\ Top.a[Top.b] # 0
    /\ stack' = Append([stack EXCEPT ![Depth].b = Top.b + 1], DataFrame(Top.a[Top.b]))
    /\ ticked' = FALSE
    /\ UNCHANGED <<pins, todo, calls, cnt, edgeAge, pulseWidth, sinceRise, riseGap, lastDelay,
                   trace, sends, pulses, lcd>>

LCD_String_Return ==
    /\ Running("LCD_String", 178)
    /\ Top.a[Top.b] = 0
    /\ PlainReturn

-----------------------------------------------------------------------------
(* main(): makes the calls of its script one after the other               *)

\* A call of the script: the function, its integer arguments a and b, and the
\* memory its pointer argument points into.
Op(op, a, b) == [op |-> op, a |-> a, b |-> b, str |-> <<>>]
StringOp(mem) == [op |-> "LCD_String", a |-> 0, b |-> 0, str |-> mem]

EntryFrame(c) ==
    CASE c.op = "LCD_Command" -> CommandFrame(c.a)
      [] c.op = "LCD_Data" -> DataFrame(c.a)
      [] c.op = "Delay" -> DelayFrame(c.a)
      [] c.op = "LCD_Clear" -> ClearFrame
      [] c.op = "LCD_Put_Cursor" -> PutCursorFrame(c.a, c.b)
      [] c.op = "LCD_Init" -> InitFrame
      [] c.op = "LCD_String" -> StringFrame(c.str)
      [] c.op = "LCD_Transmit" -> TransmitFrame(c.a, c.b)

Call ==
    /\ Idle /\ todo # <<>>
    /\ stack' = <<EntryFrame(Head(todo))>>
    /\ todo' = Tail(todo)
    /\ calls' = Append(calls, [op |-> Head(todo).op, a |-> Head(todo).a,
                               b |-> Head(todo).b, str |-> Head(todo).str,
                               t0 |-> Len(trace), s0 |-> Len(sends),
                               p0 |-> Len(pulses)])
    /\ ticked' = FALSE
    /\ UNCHANGED <<pins, cnt, edgeAge, pulseWidth, sinceRise, riseGap, lastDelay, trace,
                   sends, pulses, lcd>>

\* The lines as MX_GPIO_Init leaves them (all low) or as earlier traffic left
\* RS and the data lines; the strobe is low.
InitPins ==
    { [RS |-> r, EN |-> 0, DB7 |-> d, DB6 |-> d, DB5 |-> d, DB4 |-> d] :
        r \in {0, 1}, d \in {0, 1} }

InitWith(scripts, lcds, cnts) ==
    /\ pins \in InitPins
    /\ stack = <<>>
    /\ todo \in scripts
    /\ calls = <<>>
    /\ cnt \in cnts
    /\ ticked = FALSE
    /\ edgeAge = PulseCap
    /\ pulseWidth = PulseCap
    /\ sinceRise = GapCap
    /\ riseGap = GapCap
    /\ lastDelay = [us |-> 0, ticks |-> 0]
    /\ trace = <<>>
    /\ sends = <<>>
    /\ pulses = <<>>
    /\ lcd \in lcds

-----------------------------------------------------------------------------
(* SpecByte: one LCD_Command(v) or LCD_Data(v) call, v any 8-bit value     *)

Bytes == 0 .. 255

InitByte ==
    InitWith({ <<Op(f, v, 0)>> : f \in {"LCD_Command", "LCD_Data"}, v \in Bytes },
             {LcdReady}, {0, CounterPeriod - 1})

NextByte ==
    \/ Call
    \/ Tick
    \/ Delay_SetCounter
    \/ Delay_Poll
    \/ LCD_Transmit_RS
    \/ LCD_Transmit_DB
    \/ LCD_Transmit_EN_High
    \/ LCD_Transmit_Pulse
    \/ LCD_Transmit_EN_Low
    \/ LCD_Transmit_Settle
    \/ LCD_Transmit_Return
    \/ LCD_Command_High
    \/ LCD_Command_Low
    \/ LCD_Command_Return
    \/ LCD_Data_High
    \/ LCD_Data_Low
    \/ LCD_Data_Return

SpecByte == InitByte /\ [][NextByte]_vars

-----------------------------------------------------------------------------
(* SpecInit: LCD_Init() called twice in a row, from every interface state  *)
(* of the controller                                                       *)

\* 8-bit mode; 4-bit mode waiting for a high nibble; 4-bit mode holding a
\* high nibble and waiting for the low one.  Lines, display, entry mode and
\* display contents start away from what the initialisation is to set.
LcdAnyInterface ==
    {LcdState(8, "hi", 0, 0, 0, 0, 1, FALSE), LcdState(4, "hi", 0, 0, 0, 0, 1, FALSE)}
    \cup {LcdState(4, "lo", h, 0, 0, 0, 1, FALSE) : h \in 0 .. 15}

InitInit ==
    InitWith({ <<Op("LCD_Init", 0, 0), Op("LCD_Init", 0, 0)>> }, LcdAnyInterface, {0})

NextInit ==
    \/ Call
    \/ Tick
    \/ Delay_SetCounter
    \/ Delay_Poll
    \/ LCD_Transmit_RS
    \/ LCD_Transmit_DB
    \/ LCD_Transmit_EN_High
    \/ LCD_Transmit_Pulse
    \/ LCD_Transmit_EN_Low
    \/ LCD_Transmit_Settle
    \/ LCD_Transmit_Return
    \/ LCD_Command_High
    \/ LCD_Command_Low
    \/ LCD_Command_Return
    \/ LCD_Init_Wait
    \/ LCD_Init_Command
    \/ LCD_Init_Return

SpecInit == InitInit /\ [][NextInit]_vars

-----------------------------------------------------------------------------
(* SpecCursor: one LCD_Put_Cursor(row, col) call, and the pairs of calls   *)
(* LCD_Put_Cursor(0, 0x40 + c); LCD_Put_Cursor(1, c)                       *)

Rows == {0, 1, 2, 7, -1}
Cols == (-3 .. MaxCol) \cup {127, 128, 200, 255, 256, 261, 2147483647, -2147483647}

InitCursor ==
    InitWith({ <<Op("LCD_Put_Cursor", r, c)>> : r \in Rows, c \in Cols }
             \cup { <<Op("LCD_Put_Cursor", 0, 64 + c), Op("LCD_Put_Cursor", 1, c)>> :
                      c \in 0 .. 15 },
             {LcdReady}, {0})

NextCursor ==
    \/ Call
    \/ Tick
    \/ Delay_SetCounter
    \/ Delay_Poll
    \/ LCD_Transmit_RS
    \/ LCD_Transmit_DB
    \/ LCD_Transmit_EN_High
    \/ LCD_Transmit_Pulse
    \/ LCD_Transmit_EN_Low
    \/ LCD_Transmit_Settle
    \/ LCD_Transmit_Return
    \/ LCD_Command_High
    \/ LCD_Command_Low
    \/ LCD_Command_Return
    \/ LCD_Put_Cursor_Switch
    \/ LCD_Put_Cursor_Command
    \/ LCD_Put_Cursor_Return

SpecCursor == InitCursor /\ [][NextCursor]_vars

-----------------------------------------------------------------------------
(* SpecString: one LCD_String(s) call, s any string of at most MaxStrLen   *)
(* characters; every step of the program is eventually taken               *)

StringChars == {72, 105, 255}       \* 'H', 'i', 0xFF

Strings == UNION { [1 .. n -> StringChars] : n \in 0 .. MaxStrLen }

\* The memory holding the string s: its characters, then the terminator.
CString(s) == s \o <<0>>

InitString ==
    InitWith({ <<StringOp(CString(s))>> : s \in Strings }, {LcdReady}, {0})

NextString ==
    \/ Call
    \/ Tick
    \/ Delay_SetCounter
    \/ Delay_Poll
    \/ LCD_Transmit_RS
    \/ LCD_Transmit_DB
    \/ LCD_Transmit_EN_High
    \/ LCD_Transmit_Pulse
    \/ LCD_Transmit_EN_Low
    \/ LCD_Transmit_Settle
    \/ LCD_Transmit_Return
    \/ LCD_Data_High
    \/ LCD_Data_Low
    \/ LCD_Data_Return
    \/ LCD_String_Data
    \/ LCD_String_Return

SpecString == InitString /\ [][NextString]_vars /\ WF_vars(NextString)

-----------------------------------------------------------------------------
(* SpecDelay: one Delay(n) call with the counter anywhere at entry; the    *)
(* counter keeps ticking and the CPU keeps executing                       *)

InitDelay ==
    InitWith({ <<Op("Delay", n, 0)>> : n \in 0 .. MaxDelayUs }, {LcdReady},
             0 .. CounterPeriod - 1)

NextDelay ==
    \/ Call
    \/ Tick
    \/ Delay_SetCounter
    \/ Delay_Poll

SpecDelay ==
    /\ InitDelay /\ [][NextDelay]_vars
    /\ WF_vars(Tick)
    /\ WF_vars(Call \/ Delay_SetCounter \/ Delay_Poll)

-----------------------------------------------------------------------------
(* SpecTransmit: one LCD_Transmit(data, rs) call for every char data and   *)
(* both register selections, the bus lines at either level before it       *)

InitTransmit ==
    InitWith({ <<Op("LCD_Transmit", data, rs)>> : data \in Bytes, rs \in {CommandRS, DataRS} },
             {LcdReady}, {0, CounterPeriod - 1})

NextTransmit ==
    \/ Call
    \/ Tick
    \/ Delay_SetCounter
    \/ Delay_Poll
    \/ LCD_Transmit_RS
    \/ LCD_Transmit_DB
    \/ LCD_Transmit_EN_High
    \/ LCD_Transmit_Pulse
    \/ LCD_Transmit_EN_Low
    \/ LCD_Transmit_Settle
    \/ LCD_Transmit_Return

SpecTransmit == InitTransmit /\ [][NextTransmit]_vars

-----------------------------------------------------------------------------
(* SpecPreempt: one Delay(n) call, n below the counter's period, during    *)
(* which an interrupt handler that calls Delay(m) on the same timer may    *)
(* run, up to MaxPreempt times                                             *)

\* The handler's Delay(m) is entered between two steps of the interrupted
\* Delay, which resumes at the line it was at when the handler returns.  A
\* handler entered between the read of the counter and its comparison at
\* line 27 leaves the value read as it was, so the outcome of that iteration
\* is the one of the handler entered right after it.
\* The durations the handler waits: none, one tick, half the counter's
\* period and the longest below the period.
HandlerDelays == {0, 1, CounterPeriod \div 2, CounterPeriod - 1}

Interrupt_Delay ==
    /\ Depth = 1 /\ Top.fn = "Delay"
    /\ Len(trace) < MaxPreempt
    /\ \E m \in HandlerDelays : CallDelay(m, Top.pc)

InitPreempt ==
    InitWith({ <<Op("Delay", n, 0)>> : n \in 0 .. CounterPeriod - 1 }, {LcdReady},
             {0, CounterPeriod - 1})

NextPreempt ==
    \/ Call
    \/ Tick
    \/ Delay_SetCounter
    \/ Delay_Poll
    \/ Interrupt_Delay

SpecPreempt == InitPreempt /\ [][NextPreempt]_vars

-----------------------------------------------------------------------------
(* Spec: main() makes up to MaxCalls calls of public operations            *)

Menu ==
    { Op("LCD_Init", 0, 0), Op("LCD_Clear", 0, 0),
      Op("LCD_Command", 40, 0), Op("LCD_Data", 165, 0),
      Op("LCD_Put_Cursor", 1, 10),
      StringOp(CString(<<>>)), StringOp(CString(<<72, 105>>)) }

Scripts == UNION { [1 .. n -> Menu] : n \in 1 .. MaxCalls }

Init == InitWith(Scripts, {LcdReady}, {0})

Next ==
    \/ Call
    \/ Tick
    \/ Delay_SetCounter
    \/ Delay_Poll
    \/ LCD_Transmit_RS
    \/ LCD_Transmit_DB
    \/ LCD_Transmit_EN_High
    \/ LCD_Transmit_Pulse
    \/ LCD_Transmit_EN_Low
    \/ LCD_Transmit_Settle
    \/ LCD_Transmit_Return
    \/ LCD_Command_High
    \/ LCD_Command_Low
    \/ LCD_Command_Return
    \/ LCD_Data_High
    \/ LCD_Data_Low
    \/ LCD_Data_Return
    \/ LCD_Clear_Command
    \/ LCD_Clear_Wait
    \/ LCD_Clear_Return
    \/ LCD_Put_Cursor_Switch
    \/ LCD_Put_Cursor_Command
    \/ LCD_Put_Cursor_Return
    \/ LCD_Init_Wait
    \/ LCD_Init_Command
    \/ LCD_Init_Return
    \/ LCD_String_Data
    \/ LCD_String_Return

Spec == Init /\ [][Next]_vars

-----------------------------------------------------------------------------
(* What the probe recorded during the k-th call *)

Completed(k) == k < Len(calls) \/ (k = Len(calls) /\ Idle)
InProgress(k) == k = Len(calls) /\ ~Idle

TraceOf(k) ==
    SubSeq(trace, calls[k].t0 + 1,
           IF k < Len(calls) THEN calls[k + 1].t0 ELSE Len(trace))
SendsOf(k) ==
    SubSeq(sends, calls[k].s0 + 1,
           IF k < Len(calls) THEN calls[k + 1].s0 ELSE Len(sends))
PulsesOf(k) ==
    SubSeq(pulses, calls[k].p0 + 1,
           IF k < Len(calls) THEN calls[k + 1].p0 ELSE Len(pulses))

Count(seq, e) == Cardinality({i \in DOMAIN seq : seq[i] = e})
IsPrefix(s, t) == Len(s) <= Len(t) /\ s = SubSeq(t, 1, Len(s))

Pulse(rs, nib) == [rs |-> rs, nib |-> nib]

\* The two latched nibbles of a byte v sent with RS level rs.
BytePulses(rs, v) == << Pulse(rs, v \div 16), Pulse(rs, v - 16 * (v \div 16)) >>

\* The writes and delay requests of one nibble transmission, and of a byte.
NibbleTrace(rs, nib) ==
    << <<"RS", rs>>, <<"DB7", nib \div 8>>, <<"DB6", (nib \div 4) % 2>>,
       <<"DB5", (nib \div 2) % 2>>, <<"DB4", nib % 2>>,
       <<"EN", 1>>, <<"Delay", 20>>, <<"EN", 0>>, <<"Delay", 20>> >>
ByteTrace(rs, v) == NibbleTrace(rs, v \div 16) \o NibbleTrace(rs, v % 16)

Send(rs, byte) == [rs |-> rs, byte |-> byte]

\* The k-th call sent byte v as one high-then-low pair with RS at rs
\* throughout: it never wrote the other level to RS, RS is at rs while the
\* strobe is high, what was latched so far is the start of the pair, and on
\* return exactly the pair was latched by exactly two strobe pulses.
OneByteTransfer(k, rs, v) ==
    /\ Count(TraceOf(k), <<"RS", 1 - rs>>) = 0
    /\ (InProgress(k) /\ pins.EN = 1) => pins.RS = rs
    /\ IsPrefix(PulsesOf(k), BytePulses(rs, v))
    /\ Completed(k) =>
         /\ PulsesOf(k) = BytePulses(rs, v)
         /\ Count(TraceOf(k), <<"EN", 1>>) = 2
         /\ Count(TraceOf(k), <<"EN", 0>>) = 2

-----------------------------------------------------------------------------
(* Claims *)

\* C1: for every 8-bit v, LCD_Command(v) makes exactly two strobe pulses, the
\* first latching the high nibble of v and the second the low nibble, with RS
\* low during both pulses and never written high during the call.
C1_CommandTwoNibblesRsLow ==
    \A k \in DOMAIN calls :
        calls[k].op = "LCD_Command" => OneByteTransfer(k, 0, calls[k].a)

C1_Witness ==
    /\ Finished
    /\ Len(calls) = 1 /\ calls[1].op = "LCD_Command" /\ calls[1].a = 165
    /\ pulses = << Pulse(0, 10), Pulse(0, 5) >>

\* C2: for every 8-bit v, LCD_Data(v) makes exactly two strobe pulses, the
\* first latching the high nibble of v and the second the low nibble, with RS
\* high during both pulses and never written low during the call.
C2_DataTwoNibblesRsHigh ==
    \A k \in DOMAIN calls :
        calls[k].op = "LCD_Data" => OneByteTransfer(k, 1, calls[k].a)

C2_Witness ==
    /\ Finished
    /\ Len(calls) = 1 /\ calls[1].op = "LCD_Data" /\ calls[1].a = 72
    /\ pulses = << Pulse(1, 4), Pulse(1, 8) >>

\* C3: whenever LCD_Init() has returned, the controller is in 4-bit mode
\* waiting for a high nibble, in 2-line mode, with the display on and cleared
\* and entry mode increment without shift, whatever interface state the
\* controller started in.
C3_InitLeavesControllerReady ==
    (Idle /\ Len(calls) >= 1 /\ calls[Len(calls)].op = "LCD_Init") =>
        /\ lcd.dl = 4 /\ lcd.phase = "hi"
        /\ lcd.n = 1 /\ lcd.d = 1 /\ lcd.clr /\ lcd.id = 1 /\ lcd.s = 0

\* The command sends of one initialisation.
C4_InitSends ==
    << Send(0, 48), Send(0, 48), Send(0, 48), Send(0, 32), Send(0, 40),
       Send(0, 8), Send(0, 1), Send(0, 6), Send(0, 12) >>

\* C4: every LCD_Init() call hands LCD_Command exactly the nine bytes 0x30,
\* 0x30, 0x30, 0x20, 0x28, 0x08, 0x01, 0x06, 0x0C, in this order, and hands
\* nothing to LCD_Data, whatever the lines and the controller were at entry.
C4_InitNineCommands ==
    \A k \in DOMAIN calls :
        calls[k].op = "LCD_Init" =>
            /\ IsPrefix(SendsOf(k), C4_InitSends)
            /\ Completed(k) => SendsOf(k) = C4_InitSends

C4_Witness ==
    /\ Idle /\ Len(calls) = 1 /\ calls[1].op = "LCD_Init"
    /\ Len(sends) = 9 /\ sends[9] = Send(0, 12)
    /\ pins.RS = 0

\* C5: every strobe pulse is at least 20 ticks wide, two consecutive rising
\* strobe edges are at least 40 ticks apart, and when LCD_Transmit returns
\* it has raised the strobe, waited 20, lowered it and waited 20, the strobe
\* having been low for at least 20 ticks.
C5_StrobeTiming ==
    /\ pulseWidth >= 20
    /\ riseGap >= 40
    /\ pins.EN = 1 => Running("Delay", 26) \/ Running("Delay", 27)
                      \/ Running("LCD_Transmit", 54) \/ Running("LCD_Transmit", 55)
    /\ Running("LCD_Transmit", 55) => edgeAge >= 20
    /\ Running("LCD_Transmit", 57) =>
         /\ pins.EN = 0 /\ edgeAge >= 20 /\ sinceRise >= 40
         /\ Len(trace) >= 4
         /\ SubSeq(trace, Len(trace) - 3, Len(trace))
              = << <<"EN", 1>>, <<"Delay", 20>>, <<"EN", 0>>, <<"Delay", 20>> >>

C5_Witness ==
    /\ Len(calls) = 2 /\ calls[1].op = "LCD_Data" /\ calls[2].op = "LCD_Command"
    /\ Len(pulses) = 2 /\ pins.EN = 1 /\ riseGap = 40 /\ edgeAge = 20

\* C6: LCD_Clear() writes to the bus exactly the two instruction-mode nibbles
\* 0x0 and 0x1 of one command send 0x01, and its last act before returning
\* is a millisecond delay of at least 2 ms, requested after the second nibble
\* transmission has completed.
C6_ClearSendsOneThenWaits ==
    \A k \in DOMAIN calls :
        calls[k].op = "LCD_Clear" =>
            /\ IsPrefix(SendsOf(k), << Send(0, 1) >>)
            /\ IsPrefix(SubSeq(TraceOf(k), 1, Min(Len(TraceOf(k)), 18)), ByteTrace(0, 1))
            /\ Len(TraceOf(k)) <= 19
            /\ Len(TraceOf(k)) = 19 =>
                 /\ TraceOf(k)[19][1] = "HAL_Delay" /\ TraceOf(k)[19][2] >= 2
                 /\ InProgress(k) => Running("LCD_Clear", 110)
            /\ Completed(k) =>
                 /\ Len(TraceOf(k)) = 19
                 /\ SendsOf(k) = << Send(0, 1) >>
                 /\ PulsesOf(k) = << Pulse(0, 0), Pulse(0, 1) >>

C6_Witness ==
    /\ Finished /\ Len(calls) = 1 /\ calls[1].op = "LCD_Clear"
    /\ trace = ByteTrace(0, 1) \o << <<"HAL_Delay", 2>> >>

\* The row's base address, and byte = x | y on the low 8 bits.
C7_Base(row) == IF row = 0 THEN 128 ELSE 192

C7_IsOr(byte, x, y) ==
    /\ byte \in 0 .. 255
    /\ \A i \in 0 .. 7 :
          (Bit(byte, i) = 1) <=> (Bit(x, i) = 1 \/ Bit(y, i) = 1)

\* C7: for row 0 or 1 and any column, LCD_Put_Cursor(row, column) makes
\* exactly one command send, of the byte whose bits are those of the row's
\* base (0x80, 0xC0) or-ed with the low 8 bits of the column; for a column in
\* 0..15 that is base + column (0x85 for (0,5), 0xCA for (1,10)); and
\* LCD_Put_Cursor(0, 0x40 + c) sends the byte LCD_Put_Cursor(1, c) sends.
C7_CursorByte ==
    /\ \A k \in DOMAIN calls :
         (calls[k].op = "LCD_Put_Cursor" /\ calls[k].a \in {0, 1}) =>
            /\ Len(SendsOf(k)) <= 1
            /\ Completed(k) =>
                 /\ Len(SendsOf(k)) = 1
                 /\ SendsOf(k)[1].rs = 0
                 /\ C7_IsOr(SendsOf(k)[1].byte, C7_Base(calls[k].a), calls[k].b)
                 /\ calls[k].b \in 0 .. 15 =>
                        SendsOf(k)[1].byte = C7_Base(calls[k].a) + calls[k].b
                 /\ (calls[k].a = 0 /\ calls[k].b = 5) => SendsOf(k)[1].byte = 133
                 /\ (calls[k].a = 1 /\ calls[k].b = 10) => SendsOf(k)[1].byte = 202
                 /\ PulsesOf(k) = BytePulses(0, SendsOf(k)[1].byte)
    /\ (Finished /\ Len(calls) = 2 /\ calls[1].a = 0 /\ calls[2].a = 1
            /\ calls[1].b = 64 + calls[2].b) =>
         /\ Len(sends) = 2
         /\ sends[1] = sends[2]

C7_Witness ==
    /\ Finished /\ Len(calls) = 2
    /\ calls[1].a = 0 /\ calls[1].b = 74 /\ calls[2].a = 1 /\ calls[2].b = 10
    /\ sends = << Send(0, 202), Send(0, 202) >>

\* The characters of the string of the k-th call, and what holds of the
\* probe's records at every moment of an LCD_String call.
C8_Chars(k) == SubSeq(calls[k].str, 1, Len(calls[k].str) - 1)

C8_StringSafety ==
    \A k \in DOMAIN calls :
        calls[k].op = "LCD_String" =>
            LET s == C8_Chars(k) IN
            /\ Len(SendsOf(k)) <= Len(s)
            /\ \A i \in DOMAIN SendsOf(k) : SendsOf(k)[i] = Send(1, s[i])
            /\ Len(PulsesOf(k)) <= 2 * Len(SendsOf(k))
            /\ \A i \in DOMAIN PulsesOf(k) :
                  PulsesOf(k)[i] = BytePulses(1, s[(i + 1) \div 2])[2 - (i % 2)]
            /\ Count(TraceOf(k), <<"RS", 0>>) = 0
            /\ Completed(k) =>
                 /\ Len(SendsOf(k)) = Len(s)
                 /\ Len(PulsesOf(k)) = 2 * Len(s)
                 /\ s = <<>> => TraceOf(k) = <<>>

\* C8: LCD_String(s) terminates, and makes exactly one data send per
\* character of s, in order, each a high-then-low nibble pair with RS high;
\* it makes no command send, does not send the terminator, and does nothing
\* on the bus for the empty string.
C8_StringSendsEachChar == []C8_StringSafety /\ <>Finished

C8_Witness ==
    /\ Finished /\ Len(calls) = 1 /\ calls[1].str = <<72, 105, 0>>
    /\ sends = << Send(1, 72), Send(1, 105) >>
    /\ pulses = << Pulse(1, 4), Pulse(1, 8), Pulse(1, 6), Pulse(1, 9) >>

\* What holds at every moment of a Delay call.
C9_DelaySafety ==
    /\ lastDelay.ticks >= lastDelay.us
    /\ Running("Delay", 27) => Min(cnt, Top.a) <= Top.b
    /\ (Idle /\ Len(calls) = 1 /\ calls[1].op = "Delay") =>
         /\ lastDelay.us = calls[1].a
         /\ cnt >= calls[1].a

\* C9: Delay(n) sets the counter to zero at entry (while it polls, the
\* counter is no more than the ticks elapsed since entry) and returns only
\* when the counter reads at least n, so that at least n ticks have elapsed
\* since entry; and with n smaller than the counter's period, Delay(n)
\* returns.
C9_DelayWaitsAndReturns ==
    /\ []C9_DelaySafety
    /\ (todo # <<>> /\ Head(todo).a < CounterPeriod) => <>Finished

C9_Witness ==
    /\ Finished /\ Len(calls) = 1 /\ calls[1].op = "Delay"
    /\ calls[1].a = CounterPeriod - 1
    /\ lastDelay = [us |-> CounterPeriod - 1, ticks |-> CounterPeriod - 1]

\* C10: when LCD_Init() is called twice in a row, the GPIO writes (with their
\* levels) and the delay requests (with their durations) of the second call
\* are, in order, those of the first.
C10_SecondInitRepeatsFirst ==
    (Len(calls) = 2 /\ calls[1].op = "LCD_Init" /\ calls[2].op = "LCD_Init") =>
        /\ IsPrefix(TraceOf(2), TraceOf(1))
        /\ Completed(2) => TraceOf(2) = TraceOf(1)

C10_Witness ==
    /\ Finished /\ Len(calls) = 2
    /\ calls[1].op = "LCD_Init" /\ calls[2].op = "LCD_Init"
    /\ Len(trace) = 342 /\ calls[2].t0 = 171
    /\ calls[1].p0 = 0 /\ calls[2].p0 = 18 /\ Len(pulses) = 36

BusLines == {"RS", "EN", "DB7", "DB6", "DB5", "DB4"}

\* The datasheet's power-on wait before the first instruction, in ms.
POWER_ON_MS == 40

\* The milliseconds HAL_Delay was asked for by the first n events of tr.
RECURSIVE WaitedIn(_, _)
WaitedIn(tr, n) ==
    IF n = 0 THEN 0
    ELSE WaitedIn(tr, n - 1) + (IF tr[n][1] = "HAL_Delay" THEN tr[n][2] ELSE 0)

\* The position in tr of its first write to a bus line, 0 when it has none.
FirstBusWrite(tr) ==
    LET w == {i \in DOMAIN tr : tr[i][1] \in BusLines}
    IN  IF w = {} THEN 0 ELSE CHOOSE i \in w : \A j \in w : i <= j

\* C11: in every LCD_Init call the first write to a bus line (RS, EN,
\* DB7..DB4) comes after HAL_Delay requests of at least 40 ms in total since
\* the call's entry, so no bus line is written before the power-on wait.
C11_PowerOnWaitFirst ==
    \A k \in DOMAIN calls :
        calls[k].op = "LCD_Init" =>
            LET tr == TraceOf(k)
                w == FirstBusWrite(tr)
            IN  w > 0 => WaitedIn(tr, w - 1) >= POWER_ON_MS

C11_Witness ==
    /\ Len(calls) = 1 /\ calls[1].op = "LCD_Init"
    /\ trace = << <<"HAL_Delay", 50>>, <<"RS", 0>> >>

\* The positions in tr of the falling strobe edges that end a byte (every
\* second falling edge: a byte is sent as two nibbles).
ByteEnds(tr) ==
    LET falls == {i \in DOMAIN tr : tr[i] = <<"EN", 0>>}
    IN  {i \in falls : Cardinality({f \in falls : f <= i}) % 2 = 0}

\* The microseconds an event of the probe asks to wait, 0 for a pin write.
WaitUs(e) ==
    CASE e[1] = "Delay" -> e[2]
      [] e[1] = "HAL_Delay" -> 1000 * e[2]
      [] OTHER -> 0

\* The position of the first bus write of tr after position j, Len(tr) + 1
\* when there is none.
RECURSIVE NextBusWrite(_, _)
NextBusWrite(tr, j) ==
    IF j + 1 > Len(tr) \/ tr[j + 1][1] \in BusLines THEN j + 1
    ELSE NextBusWrite(tr, j + 1)

\* The microseconds of delay requested after position j of tr and before
\* position n.
RECURSIVE WaitBetween(_, _, _)
WaitBetween(tr, j, n) ==
    IF j + 1 >= n THEN 0 ELSE WaitUs(tr[j + 1]) + WaitBetween(tr, j + 1, n)

\* The wait of call k after the byte ending at position j of its trace is
\* over: the next bus write was made or the call returned.
WaitOver(k, j) == NextBusWrite(TraceOf(k), j) <= Len(TraceOf(k)) \/ Completed(k)
WaitAfter(k, j) == WaitBetween(TraceOf(k), j, NextBusWrite(TraceOf(k), j))

\* The maximum execution time of most instructions, in microseconds.
EXEC_TIME_US == 100

\* C12: in every LCD_Init call, each command send, the last one (0x0C)
\* included, is followed by more than 100 microseconds of delay before the
\* next bus write or the return of LCD_Init.
C12_InitCommandsFollowedByDelay ==
    \A k \in DOMAIN calls :
        calls[k].op = "LCD_Init" =>
            \A j \in ByteEnds(TraceOf(k)) :
                WaitOver(k, j) => WaitAfter(k, j) > EXEC_TIME_US

\* The position in tr where its i-th byte ends, 0 while it has not ended.
ByteEnd(tr, i) ==
    LET falls == {j \in DOMAIN tr : tr[j] = <<"EN", 0>>}
        e == {j \in falls : Cardinality({f \in falls : f <= j}) = 2 * i}
    IN  IF e = {} THEN 0 ELSE CHOOSE j \in e : TRUE

\* The sends of call k that are the clear-display instruction.
ClearSends(k) ==
    {i \in DOMAIN SendsOf(k) : SendsOf(k)[i] = Send(CommandRS, CLEAR_DISPLAY)}

\* C13: every clear-display instruction (0x01) sent by LCD_Init or LCD_Clear
\* is followed by at least 2 ms of delay before the next bus write or the
\* return of the operation.
C13_ClearFollowedByTwoMs ==
    \A k \in DOMAIN calls :
        calls[k].op \in {"LCD_Init", "LCD_Clear"} =>
            \A i \in ClearSends(k) :
                LET j == ByteEnd(TraceOf(k), i)
                IN  (j > 0 /\ WaitOver(k, j)) => WaitAfter(k, j) >= 1000 * CLEAR_DELAY_MS

FUNCTION_SET_8BIT == 48

\* The wait of call k after its i-th byte is over.
WaitOverByte(k, i) ==
    LET j == ByteEnd(TraceOf(k), i) IN j > 0 /\ WaitOver(k, j)
\* The microseconds HAL_Delay was asked to wait after the i-th byte of call k.
HalWaitAfterByte(k, i) == WaitAfter(k, ByteEnd(TraceOf(k), i)) - EN_SETTLE_US

\* The first three sends of the k-th call are the 0x30 pattern.
ThreeFunctionSets(k) ==
    \A i \in 1 .. 3 :
        i <= Len(SendsOf(k)) => SendsOf(k)[i] = Send(CommandRS, FUNCTION_SET_8BIT)

\* C14 as stated: in every LCD_Init call each of the three 0x30 sends is
\* followed by a non-zero delay, and the delay after the first is longer than
\* the one after the second, which is longer than the one after the third.
C14_WaitsDecreasing ==
    \A k \in DOMAIN calls :
        calls[k].op = "LCD_Init" =>
            /\ ThreeFunctionSets(k)
            /\ \A i \in 1 .. 3 : WaitOverByte(k, i) => HalWaitAfterByte(k, i) > 0
            /\ \A i \in 1 .. 2 :
                  WaitOverByte(k, i + 1)
                      => HalWaitAfterByte(k, i) > HalWaitAfterByte(k, i + 1)

\* C14: in every LCD_Init call each of the three 0x30 sends is followed by a
\* non-zero delay; the delay after the first is longer than the one after the
\* second, and the delay after the third is longer than both.
C14_WaitsNonZeroThirdLongest ==
    \A k \in DOMAIN calls :
        calls[k].op = "LCD_Init" =>
            /\ ThreeFunctionSets(k)
            /\ \A i \in 1 .. 3 : WaitOverByte(k, i) => HalWaitAfterByte(k, i) > 0
            /\ WaitOverByte(k, 2) => HalWaitAfterByte(k, 1) > HalWaitAfterByte(k, 2)
            /\ WaitOverByte(k, 3) => HalWaitAfterByte(k, 3) > HalWaitAfterByte(k, 1)

C14_Witness ==
    /\ Len(calls) = 1 /\ calls[1].op = "LCD_Init"
    /\ WaitOverByte(1, 3)
    /\ HalWaitAfterByte(1, 1) = 5000
    /\ HalWaitAfterByte(1, 2) = 1000
    /\ HalWaitAfterByte(1, 3) = 10000

\* C15: one LCD_Transmit(data, rs) call writes RS to rs, then DB7, DB6, DB5
\* and DB4 once each in this order, DBk getting bit k-4 of data, then raises
\* the strobe (its writes and delay requests are those of the low four bits
\* of data, whatever bits 7..4 are); while the strobe is high RS is at rs and
\* the data lines hold the low four bits of data.
C15_TransmitOrderAndLevels ==
    \A k \in DOMAIN calls :
        calls[k].op = "LCD_Transmit" =>
            LET nib == calls[k].a % 16
                rs == calls[k].b
            IN  /\ IsPrefix(TraceOf(k), NibbleTrace(rs, nib))
                /\ Completed(k) =>
                     /\ TraceOf(k) = NibbleTrace(rs, nib)
                     /\ PulsesOf(k) = << Pulse(rs, nib) >>
                /\ (InProgress(k) /\ pins.EN = 1) =>
                     /\ pins.RS = rs
                     /\ pins.DB7 = Bit(calls[k].a, 3) /\ pins.DB6 = Bit(calls[k].a, 2)
                     /\ pins.DB5 = Bit(calls[k].a, 1) /\ pins.DB4 = Bit(calls[k].a, 0)

C15_Witness ==
    /\ Len(calls) = 1 /\ calls[1].op = "LCD_Transmit"
    /\ calls[1].a = 214 /\ calls[1].b = 1
    /\ pins = [RS |-> 1, EN |-> 1, DB7 |-> 0, DB6 |-> 1, DB5 |-> 1, DB4 |-> 0]
    /\ trace = SubSeq(NibbleTrace(1, 6), 1, 6)

\* C16: for every row other than 0 and 1 (negative rows too) and every
\* column, LCD_Put_Cursor(row, column) runs to its return and makes exactly
\* one command send, of the byte whose bits are the low 8 bits of the column
\* (no row base or-ed in): 5 for column 5 and for column 261, 253 for -3.
C16_UnknownRowSendsRawColumn ==
    \A k \in DOMAIN calls :
        (calls[k].op = "LCD_Put_Cursor" /\ calls[k].a \notin {0, 1}) =>
            /\ Len(SendsOf(k)) <= 1
            /\ Completed(k) =>
                 /\ SendsOf(k) = << Send(CommandRS, ToChar(calls[k].b)) >>
                 /\ C7_IsOr(SendsOf(k)[1].byte, 0, calls[k].b)
                 /\ calls[k].b \in {5, 261} => SendsOf(k)[1].byte = 5
                 /\ calls[k].b = -3 => SendsOf(k)[1].byte = 253
                 /\ PulsesOf(k) = BytePulses(CommandRS, SendsOf(k)[1].byte)

C16_Witness ==
    /\ Finished /\ Len(calls) = 1
    /\ calls[1].op = "LCD_Put_Cursor" /\ calls[1].a = -1 /\ calls[1].b = 5
    /\ sends = << Send(0, 5) >>
    /\ pulses = << Pulse(0, 0), Pulse(0, 5) >>

\* The k-th call is a Delay whose duration is not below the counter's period.
OverRange(k) == calls[k].op = "Delay" /\ ToU16(calls[k].a) >= CounterPeriod

\* C17 as stated: a Delay whose duration is not below the counter's period
\* returns, after fewer ticks than requested.
C17_OverRangeReturnsEarly ==
    (todo # <<>> /\ Head(todo).op = "Delay" /\ ToU16(Head(todo).a) >= CounterPeriod)
        => <>(Finished /\ lastDelay.ticks < lastDelay.us)

\* C17: a Delay whose duration is not below the counter's period never
\* returns: the counter wraps to 0 before it reaches the target, so it is
\* below the target at every read.
C17_OverRangeNeverReturns ==
    \A k \in DOMAIN calls :
        OverRange(k) =>
            /\ ~Completed(k)
            /\ Running("Delay", 27) => DelayWaiting(cnt, ToU16(calls[k].a))

C17_Witness ==
    /\ Len(calls) = 1 /\ OverRange(1) /\ calls[1].a = CounterPeriod + 1
    /\ Running("Delay", 27)
    /\ Top.b = CounterPeriod + 1
    /\ cnt = 1

\* C18: whenever the caller is between calls of the public operations, the
\* strobe pulses made so far are twice the bytes sent so far, and pulses
\* 2i-1 and 2i latched the high and the low nibble of the i-th byte, both
\* with that byte's RS level.
C18_PulsesPairUp ==
    Idle =>
        /\ Len(pulses) = 2 * Len(sends)
        /\ \A i \in DOMAIN sends :
              /\ pulses[2 * i - 1] = Pulse(sends[i].rs, sends[i].byte \div 16)
              /\ pulses[2 * i] = Pulse(sends[i].rs, sends[i].byte % 16)

C18_Witness ==
    /\ Finished /\ Len(calls) = 2
    /\ calls[1].op = "LCD_Put_Cursor" /\ calls[2].op = "LCD_String"
    /\ sends = << Send(0, 202), Send(1, 72), Send(1, 105) >>
    /\ pulses = << Pulse(0, 12), Pulse(0, 10), Pulse(1, 4), Pulse(1, 8),
                   Pulse(1, 6), Pulse(1, 9) >>

\* C19: with the strobe low at start, every write to RS or to a data line is
\* made while the strobe is low, and the strobe is low whenever a public
\* operation has returned to the caller.
C19_WritesWhileStrobeLow ==
    /\ (trace # <<>> /\ trace[Len(trace)][1] \in BusLines \ {"EN"}) => pins.EN = 0
    /\ Idle => pins.EN = 0

C19_Witness ==
    /\ Len(calls) = 2 /\ InProgress(2)
    /\ Count(trace, <<"EN", 1>>) = 3 /\ Count(trace, <<"EN", 0>>) = 3
    /\ trace[Len(trace)][1] = "DB7"
    /\ pins.EN = 0

\* C20: a Delay(n) call, n below the counter's period, that interrupt
\* handlers calling Delay(m) on the same counter preempted at any of its
\* steps returns only when at least n ticks have passed since its entry.
C20_LowerBoundSurvivesPreemption ==
    \A k \in DOMAIN calls :
        (calls[k].op = "Delay" /\ Completed(k)) =>
            /\ lastDelay.us = calls[k].a
            /\ lastDelay.ticks >= calls[k].a

C20_Witness ==
    /\ Finished /\ Len(calls) = 1 /\ calls[1].op = "Delay" /\ calls[1].a = 10
    /\ trace = << <<"Delay", 1>>, <<"Delay", CounterPeriod \div 2>> >>
    /\ lastDelay = [us |-> 10, ticks |-> 10]
    /\ cnt = CounterPeriod \div 2

=============================================================================
